---- MODULE Spec2Model ----
(***************************************************************************)
(* A model of the entity/component world of src/src/ecs.ts (createWorld):   *)
(* the master entity list, the archetype indices, the listener registries   *)
(* and their invocations, the identifier counter and the command queue,     *)
(* with one action per operation of the World API; and of the memoized      *)
(* predicate combinators of src/packages/miniplex-core/src/predicates.ts.   *)
(***************************************************************************)
EXTENDS Integers, Sequences, FiniteSets, TLC

(***************************************************************************)
(* Bounds of the model.                                                     *)
(***************************************************************************)
\* Most archetype indices registered at the same time.
MaxArchetypes == 2
\* Most commands waiting in the queue.
MaxQueue == 2
\* Last identifier the generator hands out in a run.
MaxId == 2
\* Most executions of one queued command.
MaxRuns == 2
\* Most predicate functions kept by the memo stores.
MaxFunctions == 3

\* The first identifier: idGenerator(1).
FirstId == 1

\* The entity objects the callers hold (object identities).
Entity == {"e1", "e2"}
\* Component names used by the callers; "id" is the identifier property.
Names == {"a", "b"}
IdName == "id"
Keys == Names \cup {IdName}
\* Component data; Undefined stands for an absent property.
Values == {"v1"}
Undefined == "undefined"
None == "none"
\* The string thrown by immediately.addEntity.
DuplicateIdentifier == "Attempted to add an entity that aleady had an 'id' component."

VARIABLES
  entities,    \* the master list: a sequence of entity objects
  archetypes,  \* Map<Archetype, T[]>: archetype |-> its index
  id,          \* entity.id of every entity object (0: no "id" property)
  props,       \* the other properties of every entity object
  nextId,      \* the identifier the generator returns next
  queue,       \* the command queue: the deferred calls, oldest first
  listeners,   \* listeners.archetypeChanged: archetype |-> the callbacks of its registry
  assigned,    \* every identifier nextId() has returned, oldest first
  functions,   \* the predicate functions kept by the memo stores, oldest first
  stores,      \* predicates.ts stores: per combinator, memo key |-> function
  runs,        \* per queued command: how often a flush has executed it
  invoked,     \* per archetype: invoke() calls on its ListenerRegistry during the last call
  thrown,      \* what the last call threw (None: it returned)
  last         \* the last API call: its name, its arguments and its result

\* The module state of predicates.ts and the state of one world
predicateStores == <<functions, stores>>
worldState ==
  <<entities, archetypes, id, props, nextId, queue, listeners, assigned, runs,
    invoked, thrown>>

vars == <<worldState, predicateStores, last>>

(***************************************************************************)
(* Arrays (0-based positions, as in JavaScript).                            *)
(***************************************************************************)
Max(x, y) == IF x >= y THEN x ELSE y
Min(x, y) == IF x <= y THEN x ELSE y

\* Array.prototype.includes
Includes(s, x) == \E i \in 1..Len(s) : s[i] = x

\* Array.prototype.indexOf(x, 0): the first position of x, or -1
IndexOf(s, x) ==
  IF Includes(s, x)
  THEN (CHOOSE i \in 1..Len(s) : s[i] = x /\ \A j \in 1..(i - 1) : s[j] # x) - 1
  ELSE -1

\* Array.prototype.splice(start, 1): a negative start counts from the end
SpliceOne(s, start) ==
  LET from == IF start < 0 THEN Max(Len(s) + start, 0) ELSE Min(start, Len(s))
  IN  [i \in 1..(Len(s) - (IF from < Len(s) THEN 1 ELSE 0)) |->
         IF i <= from THEN s[i] ELSE s[i + 1]]

\* How often x occurs in s
Count(s, x) == Cardinality({i \in 1..Len(s) : s[i] = x})

\* The order of the default Array.prototype.sort on the names in use
Rank(n) == CASE n = "" -> 0 [] n = "a" -> 1 [] n = "b" -> 2 [] n = "id" -> 3

RECURSIVE Insert(_, _)
Insert(s, x) ==
  IF s = <<>> THEN <<x>>
  ELSE IF Rank(x) < Rank(Head(s)) THEN <<x>> \o s
  ELSE <<Head(s)>> \o Insert(Tail(s), x)

\* Mutant: the sort is missing
Sort_Unsorted(s) == s

\* components.sort(): sorted, repeated names kept
RECURSIVE Sort(_)
Sort(s) == IF s = <<>> THEN <<>> ELSE Insert(Sort(Tail(s)), Head(s))

\* The component lists the callers hand to createArchetype
ArchetypeLists == {<<>>, <<"a">>, <<"a", "b">>, <<"b", "a">>, <<"a", "a">>}
\* The component lists the callers hand to removeComponent
RemoveLists == {<<>>, <<"a">>, <<"b">>, <<"a", "b">>}

(***************************************************************************)
(* The world as a value, so that a queued command is the immediate call.    *)
(***************************************************************************)
World ==
  [entities |-> entities, archetypes |-> archetypes, id |-> id, props |-> props,
   nextId |-> nextId, assigned |-> assigned, invoked |-> invoked, thrown |-> thrown]

\* "name in entity" for the properties of an entity object
Has(w, e, n) == IF n = IdName THEN w.id[e] # 0 ELSE w.props[e][n] # Undefined

\* Object.keys(entity)
ObjectKeys(w, e) == {n \in Keys : Has(w, e, n)}

\* util/entityIsArchetype: every component of the archetype is present
entityIsArchetype(w, e, archetype) ==
  \A i \in 1..Len(archetype) : Has(w, e, archetype[i])

\* archetype.some((indexedComponent) => components.includes(indexedComponent))
Interested(archetype, components) ==
  \E i \in 1..Len(archetype) : archetype[i] \in components

\* A call starts with no listener invoked and nothing thrown
Begin(w) ==
  [w EXCEPT !.invoked = [a \in DOMAIN w.archetypes |-> 0], !.thrown = None]

\* Mutant: the index.includes(entity) test is missing
indexEntityWithNewComponents_NoIncludes(w, e, addedComponents) ==
  LET gains(a) == /\ Interested(a, addedComponents)
                  /\ entityIsArchetype(w, e, a)
  IN  [w EXCEPT
         !.archetypes = [a \in DOMAIN w.archetypes |->
            IF gains(a) THEN Append(w.archetypes[a], e) ELSE w.archetypes[a]],
         !.invoked = [a \in DOMAIN w.archetypes |->
            IF gains(a) THEN w.invoked[a] + 1 ELSE w.invoked[a]]]

indexEntityWithNewComponents(w, e, addedComponents) ==
  LET gains(a) == /\ Interested(a, addedComponents)
                  /\ entityIsArchetype(w, e, a)
                  /\ ~Includes(w.archetypes[a], e)
  IN  [w EXCEPT
         !.archetypes = [a \in DOMAIN w.archetypes |->
            IF gains(a) THEN Append(w.archetypes[a], e) ELSE w.archetypes[a]],
         !.invoked = [a \in DOMAIN w.archetypes |->
            IF gains(a) THEN w.invoked[a] + 1 ELSE w.invoked[a]]]

indexEntityWithRemovedComponents(w, e, removedComponents) ==
  LET loses(a) == /\ Interested(a, removedComponents)
                  /\ ~entityIsArchetype(w, e, a)
  IN  [w EXCEPT
         !.archetypes = [a \in DOMAIN w.archetypes |->
            IF loses(a)
            THEN SpliceOne(w.archetypes[a], IndexOf(w.archetypes[a], e))
            ELSE w.archetypes[a]],
         !.invoked = [a \in DOMAIN w.archetypes |->
            IF loses(a) THEN w.invoked[a] + 1 ELSE w.invoked[a]]]

\* Mutant: pos > 0 instead of pos >= 0
removeEntityFromAllIndices_SkipsFirst(w, e) ==
  LET pos(a) == IndexOf(w.archetypes[a], e)
  IN  [w EXCEPT
         !.archetypes = [a \in DOMAIN w.archetypes |->
            IF pos(a) > 0 THEN SpliceOne(w.archetypes[a], pos(a)) ELSE w.archetypes[a]],
         !.invoked = [a \in DOMAIN w.archetypes |->
            IF pos(a) > 0 THEN w.invoked[a] + 1 ELSE w.invoked[a]]]

removeEntityFromAllIndices(w, e) ==
  LET pos(a) == IndexOf(w.archetypes[a], e)
  IN  [w EXCEPT
         !.archetypes = [a \in DOMAIN w.archetypes |->
            IF pos(a) >= 0 THEN SpliceOne(w.archetypes[a], pos(a)) ELSE w.archetypes[a]],
         !.invoked = [a \in DOMAIN w.archetypes |->
            IF pos(a) >= 0 THEN w.invoked[a] + 1 ELSE w.invoked[a]]]

(***************************************************************************)
(* The immediate API, as functions of the world.                            *)
(***************************************************************************)
\* Mutant: the "id" in entity test is missing
ImmAddEntity_NoCheck(w, e) ==
  LET w1 == [w EXCEPT !.id[e] = w.nextId,
                      !.nextId = w.nextId + 1,
                      !.assigned = Append(w.assigned, w.nextId),
                      !.entities = Append(w.entities, e)]
  IN  indexEntityWithNewComponents(w1, e, ObjectKeys(w1, e))

ImmAddEntity(w, e) ==
  IF Has(w, e, IdName)
  THEN [w EXCEPT !.thrown = DuplicateIdentifier]
  ELSE LET w1 == [w EXCEPT !.id[e] = w.nextId,
                           !.nextId = w.nextId + 1,
                           !.assigned = Append(w.assigned, w.nextId),
                           !.entities = Append(w.entities, e)]
       IN  indexEntityWithNewComponents(w1, e, ObjectKeys(w1, e))

ImmRemoveEntity(w, e) ==
  LET w1 == removeEntityFromAllIndices(w, e)
      w2 == [w1 EXCEPT !.id[e] = 0]
      pos == IndexOf(w2.entities, e)
  IN  [w2 EXCEPT !.entities = SpliceOne(w2.entities, pos)]

ImmAddComponent(w, e, name, data) ==
  indexEntityWithNewComponents([w EXCEPT !.props[e][name] = data], e, {name})

ImmRemoveComponent(w, e, components) ==
  LET removed == {components[i] : i \in 1..Len(components)}
      w1 == [w EXCEPT !.props[e] =
               [n \in Names |-> IF n \in removed THEN Undefined ELSE w.props[e][n]]]
  IN  indexEntityWithRemovedComponents(w1, e, removed)

\* A command: the call a queued thunk makes
Command(op, e, names, data) == [op |-> op, entity |-> e, names |-> names, data |-> data]

\* What the listeners invoked by the call c are shown, per archetype: its index
\* as its loop iteration left it, and the master list and the entity objects
\* as they are while the indices are updated.  removeEntity updates the
\* indices first and clears the id and the master list afterwards; the other
\* calls update the indices last.
Shown(before, after, c) ==
  LET seen == IF c.op = "removeEntity" THEN before ELSE after
  IN  {[archetype |-> a, index |-> after.archetypes[a], entities |-> seen.entities,
        id |-> seen.id, props |-> seen.props] :
         a \in {a \in DOMAIN after.invoked : after.invoked[a] > before.invoked[a]}}

Execute(w, c) ==
  CASE c.op = "addEntity"       -> ImmAddEntity(w, c.entity)
    [] c.op = "removeEntity"    -> ImmRemoveEntity(w, c.entity)
    [] c.op = "addComponent"    -> ImmAddComponent(w, c.entity, c.names[1], c.data)
    [] c.op = "removeComponent" -> ImmRemoveComponent(w, c.entity, c.names)

\* The commands the callers issue in this model
Commands ==
  {Command("addEntity", e, <<>>, Undefined) : e \in Entity}
  \cup {Command("removeEntity", e, <<>>, Undefined) : e \in Entity}
  \cup {Command("addComponent", e, <<n>>, v) : e \in Entity, n \in Names, v \in Values}
  \cup {Command("removeComponent", e, ns, Undefined) : e \in Entity, ns \in RemoveLists}

\* The identifier generator is capped: addEntity is not called once it is exhausted
WithinIds(w, c) == c.op = "addEntity" /\ ~Has(w, c.entity, IdName) => w.nextId <= MaxId

\* The record of a call: ret is the entity it returned, pos what
\* entities.indexOf(entity, 0) gave in removeEntity (-1 when not computed)
Call(op, c, ret, pos) ==
  [op |-> op, entity |-> c.entity, names |-> c.names, data |-> c.data,
   ret |-> ret, pos |-> pos]

Store(w) ==
  /\ entities' = w.entities
  /\ archetypes' = w.archetypes
  /\ id' = w.id
  /\ props' = w.props
  /\ nextId' = w.nextId
  /\ assigned' = w.assigned
  /\ invoked' = w.invoked
  /\ thrown' = w.thrown
  /\ UNCHANGED predicateStores

(***************************************************************************)
(* Actions.                                                                 *)
(***************************************************************************)
Init ==
  /\ entities = <<>>
  /\ archetypes = <<>>
  /\ id = [e \in Entity |-> 0]
  /\ props \in [Entity -> [Names -> Values \cup {Undefined}]]
  /\ nextId = FirstId
  /\ queue = <<>>
  /\ listeners = <<>>
  /\ assigned = <<>>
  /\ runs = <<>>
  /\ functions = <<>>
  /\ stores = [not |-> <<>>, all |-> <<>>, any |-> <<>>, none |-> <<>>]
  /\ invoked = <<>>
  /\ thrown = None
  /\ last = Call("createWorld", Command("createWorld", None, <<>>, Undefined), Undefined, -1)

\* The registry is capped: no new archetype is asked for once it is full
WithinArchetypes(components) ==
  Sort(components) \in DOMAIN archetypes \/ Cardinality(DOMAIN archetypes) < MaxArchetypes

\* Mutant: the archetypes.has(archetype) test is missing
Register_Rebuilds(op, components) ==
  LET archetype == Sort(components)
      w == Begin(World)
  IN  /\ archetypes' = [a \in DOMAIN archetypes \cup {archetype} |->
             IF a = archetype
             THEN SelectSeq(entities, LAMBDA e : entityIsArchetype(w, e, archetype))
             ELSE archetypes[a]]
      /\ listeners' = [a \in DOMAIN archetypes \cup {archetype} |->
             IF a = archetype THEN <<>> ELSE listeners[a]]
      /\ invoked' = [a \in DOMAIN archetypes \cup {archetype} |-> 0]
      /\ thrown' = None
      /\ last' = Call(op, Command(op, None, components, Undefined), archetype, -1)
      /\ UNCHANGED <<entities, id, props, nextId, queue, assigned, runs, predicateStores>>

\* createArchetype(...components), called through the API function op
Register(op, components) ==
  LET archetype == Sort(components)
      w == Begin(World)
  IN  /\ IF archetype \notin DOMAIN archetypes
         THEN /\ archetypes' = [a \in DOMAIN archetypes \cup {archetype} |->
                   IF a = archetype
                   THEN SelectSeq(entities, LAMBDA e : entityIsArchetype(w, e, archetype))
                   ELSE archetypes[a]]
              /\ listeners' = [a \in DOMAIN archetypes \cup {archetype} |->
                   IF a = archetype THEN <<>> ELSE listeners[a]]
              /\ invoked' = [a \in DOMAIN archetypes \cup {archetype} |-> 0]
         ELSE /\ archetypes' = archetypes
              /\ listeners' = listeners
              /\ invoked' = w.invoked
      /\ thrown' = None
      /\ last' = Call(op, Command(op, None, components, Undefined), archetype, -1)
      /\ UNCHANGED <<entities, id, props, nextId, queue, assigned, runs, predicateStores>>

\* world.createArchetype(...components)
createArchetype ==
  \E components \in ArchetypeLists :
    WithinArchetypes(components) /\ Register("createArchetype", components)

\* world.immediately.<op>(...)
Immediately(c) ==
  LET w == Execute(Begin(World), c)
  IN  /\ WithinIds(World, c)
      /\ Store(w)
      /\ last' = Call("immediately." \o c.op, c,
                   IF c.op = "addEntity" /\ w.thrown = None THEN c.entity ELSE Undefined,
                   IF c.op = "removeEntity" THEN IndexOf(entities, c.entity) ELSE -1)
      /\ UNCHANGED <<queue, listeners, runs>>

immediately_addEntity ==
  \E c \in Commands : c.op = "addEntity" /\ Immediately(c)

immediately_removeEntity ==
  \E c \in Commands : c.op = "removeEntity" /\ Immediately(c)

immediately_addComponent ==
  \E c \in Commands : c.op = "addComponent" /\ Immediately(c)

immediately_removeComponent ==
  \E c \in Commands : c.op = "removeComponent" /\ Immediately(c)

\* Mutant: clear() starts the identifiers again
clear_ResetsIds ==
  /\ entities' = <<>>
  /\ archetypes' = <<>>
  /\ listeners' = <<>>
  /\ invoked' = <<>>
  /\ queue' = <<>>
  /\ thrown' = None
  /\ runs' = <<>>
  /\ nextId' = FirstId
  /\ last' = Call("clear", Command("clear", None, <<>>, Undefined), Undefined, -1)
  /\ UNCHANGED <<id, props, assigned, predicateStores>>

\* Mutant: queue.clear() is missing
clear_KeepsQueue ==
  /\ entities' = <<>>
  /\ archetypes' = <<>>
  /\ listeners' = <<>>
  /\ invoked' = <<>>
  /\ thrown' = None
  /\ last' = Call("clear", Command("clear", None, <<>>, Undefined), Undefined, -1)
  /\ UNCHANGED <<id, props, nextId, assigned, queue, runs, predicateStores>>

\* world.clear()
clear ==
  /\ entities' = <<>>
  /\ archetypes' = <<>>
  /\ listeners' = <<>>
  /\ invoked' = <<>>
  /\ queue' = <<>>
  /\ runs' = <<>>
  /\ thrown' = None
  /\ last' = Call("clear", Command("clear", None, <<>>, Undefined), Undefined, -1)
  /\ UNCHANGED <<id, props, nextId, assigned, predicateStores>>

(***************************************************************************)
(* The deferred API and the command queue.                                  *)
(***************************************************************************)
\* The commands and component lists of the callers that defer their mutations
DeferredCommands ==
  {c \in Commands : c.op \in {"addEntity", "removeEntity"}}
  \cup {Command("addComponent", "e1", <<"a">>, "v1"),
        Command("removeComponent", "e1", <<"a">>, Undefined)}
DeferredLists == {<<"a">>, <<"b", "a">>}

\* util/commandQueue add: queue.push(thunk)
QueueAdd(q, c) == Append(q, c)

\* util/commandQueue flush: queue.forEach((thunk) => thunk()), then queue.length = 0;
\* a thunk that throws ends the forEach
\* How many thunks of q return before one throws
RECURSIVE QueueDone(_, _)
QueueDone(w, q) ==
  IF q = <<>> THEN 0
  ELSE LET w1 == Execute(w, Head(q))
       IN  IF w1.thrown # None THEN 0 ELSE 1 + QueueDone(w1, Tail(q))

\* What the listeners are shown while the thunks of q run
RECURSIVE QueueShown(_, _)
QueueShown(w, q) ==
  IF q = <<>> THEN {}
  ELSE LET w1 == Execute(w, Head(q))
       IN  Shown(w, w1, Head(q))
             \cup (IF w1.thrown # None THEN {} ELSE QueueShown(w1, Tail(q)))

RECURSIVE QueueRun(_, _)
QueueRun(w, q) ==
  IF q = <<>> THEN w
  ELSE LET w1 == Execute(w, Head(q))
       IN  IF w1.thrown # None THEN w1 ELSE QueueRun(w1, Tail(q))

\* Mutant: the call is made at once as well as queued
Defer_Eager(c) ==
  /\ Len(queue) < MaxQueue
  /\ WithinIds(World, c)
  /\ queue' = QueueAdd(queue, c)
  /\ runs' = Append(runs, 0)
  /\ Store(Execute(Begin(World), c))
  /\ last' = Call(c.op, c, IF c.op = "addEntity" THEN c.entity ELSE Undefined, -1)
  /\ UNCHANGED listeners

\* world.<op>(...): queue.add(() => immediately.<op>(...))
Defer(c) ==
  /\ Len(queue) < MaxQueue
  /\ queue' = QueueAdd(queue, c)
  /\ runs' = Append(runs, 0)
  /\ invoked' = [a \in DOMAIN archetypes |-> 0]
  /\ thrown' = None
  /\ last' = Call(c.op, c, IF c.op = "addEntity" THEN c.entity ELSE Undefined, -1)
  /\ UNCHANGED <<entities, archetypes, id, props, nextId, listeners, assigned,
                 predicateStores>>

addEntity ==
  \E c \in DeferredCommands : c.op = "addEntity" /\ Defer(c)

removeEntity ==
  \E c \in DeferredCommands : c.op = "removeEntity" /\ Defer(c)

addComponent ==
  \E c \in DeferredCommands : c.op = "addComponent" /\ Defer(c)

removeComponent ==
  \E c \in DeferredCommands : c.op = "removeComponent" /\ Defer(c)

\* world.flush()
flush ==
  LET w == QueueRun(Begin(World), queue)
      done == QueueDone(Begin(World), queue)
  IN  /\ w.nextId <= MaxId + 1
      /\ \A i \in 1..Len(runs) : runs[i] < MaxRuns
      /\ Store(w)
      /\ queue' = IF w.thrown = None THEN <<>> ELSE queue
      /\ runs' = IF w.thrown = None THEN <<>>
                 ELSE [i \in 1..Len(runs) |-> IF i <= done THEN runs[i] + 1 ELSE runs[i]]
      /\ last' = Call("flush", Command("flush", None, <<>>, Undefined), Undefined, -1)
      /\ UNCHANGED listeners

\* world.getWith(...components): get(createArchetype(...components))
getWith ==
  \E components \in DeferredLists :
    WithinArchetypes(components) /\ Register("getWith", components)

Next ==
  \/ createArchetype
  \/ immediately_addEntity
  \/ immediately_removeEntity
  \/ immediately_addComponent
  \/ immediately_removeComponent
  \/ clear

Spec == Init /\ [][Next]_vars

\* The callers that only use the deferred surface
NextDeferred ==
  \/ getWith
  \/ addEntity
  \/ removeEntity
  \/ addComponent
  \/ removeComponent
  \/ flush
  \/ clear

\* Their entities: e1 = {b: v1}, e2 = {a: v1, b: v1}
InitDeferred ==
  /\ Init
  /\ props = [e \in Entity |->
                [n \in Names |-> IF e = "e1" /\ n = "a" THEN Undefined ELSE "v1"]]

SpecDeferred == InitDeferred /\ [][NextDeferred]_vars

(***************************************************************************)
(* The listener registries.                                                 *)
(***************************************************************************)
\* The callbacks the callers register
Callbacks == {"f1"}

\* util/ListenerRegistry add: the callbacks are an ordered set
RegistryAdd(registry, f) == IF Includes(registry, f) THEN registry ELSE Append(registry, f)

\* world.listeners.archetypeChanged.get(archetype).add(f)
archetypeChanged_add ==
  \E archetype \in DOMAIN listeners : \E f \in Callbacks :
    /\ listeners' = [listeners EXCEPT ![archetype] = RegistryAdd(@, f)]
    /\ invoked' = [a \in DOMAIN archetypes |-> 0]
    /\ thrown' = None
    /\ last' = Call("listeners.add", Command("listeners.add", None, archetype, f), Undefined, -1)
    /\ UNCHANGED <<entities, archetypes, id, props, nextId, queue, assigned, runs,
                   predicateStores>>

\* world.get(archetype): archetypes.get(archetype)
get(w, archetype) ==
  IF archetype \in DOMAIN w.archetypes THEN w.archetypes[archetype] ELSE Undefined

\* The callers that register listeners and defer their mutations
NextListeners ==
  \/ getWith
  \/ archetypeChanged_add
  \/ addEntity
  \/ removeEntity
  \/ flush
  \/ clear

SpecListeners == InitDeferred /\ [][NextListeners]_vars

(***************************************************************************)
(* The predicate combinators of predicates.ts.                              *)
(***************************************************************************)
\* The falsy component name
Empty == ""
\* The component lists the callers hand to all, any and none
PredicateLists == {<<"a">>, <<"a", "">>, <<"a", "a">>, <<"a", "b">>, <<"b", "a">>}

\* [...new Set(list)]: the first occurrence of every element
RECURSIVE Unique(_)
Unique(s) ==
  IF s = <<>> THEN <<>>
  ELSE LET front == Unique(SubSeq(s, 1, Len(s) - 1))
       IN  IF Includes(front, s[Len(s)]) THEN front ELSE Append(front, s[Len(s)])

\* JSON.stringify of an array of strings
RECURSIVE Joined(_)
Joined(s) ==
  IF s = <<>> THEN ""
  ELSE "\"" \o Head(s) \o "\"" \o (IF Len(s) > 1 THEN "," ELSE "") \o Joined(Tail(s))
Stringify(s) == "[" \o Joined(s) \o "]"

\* Mutant: the filter of the falsy names is missing
key_KeepsFalsy(components) == Stringify(Unique(Sort(components)))

key(components) ==
  Stringify(Unique(SelectSeq(Sort(components), LAMBDA p : p # Empty)))

\* memoize(store, from, to): the store afterwards and the function returned
memoize(store, from, to) ==
  IF from \in DOMAIN store
  THEN [store |-> store, ret |-> store[from]]
  ELSE [store |-> store @@ (from :> to), ret |-> to]

\* entity[c] for the entity object e
Property(e, c) == IF c \in Names THEN props[e][c] ELSE Undefined

\* The call of the function object f (a position in fs) on the entity e
RECURSIVE Apply(_, _, _)
Apply(fs, f, e) ==
  LET components == fs[f].components
  IN  CASE fs[f].kind = "not"  -> ~Apply(fs, fs[f].of, e)
        [] fs[f].kind = "all"  ->
             \A i \in 1..Len(components) : Property(e, components[i]) # Undefined
        [] fs[f].kind = "any"  ->
             \E i \in 1..Len(components) : Property(e, components[i]) # Undefined
        [] fs[f].kind = "none" ->
             \A i \in 1..Len(components) : Property(e, components[i]) = Undefined

\* A combinator call: to is the function object the call makes, kept (and counted
\* in functions) only when memoize stores it
Memoized(kind, from, closure, call) ==
  LET to == Len(functions) + 1
      m == memoize(stores[kind], from, to)
  IN  /\ m.ret = to => Len(functions) < MaxFunctions
      /\ stores' = [stores EXCEPT ![kind] = m.store]
      /\ functions' = IF m.ret = to THEN Append(functions, closure) ELSE functions
      /\ last' = Call(kind, call, m.ret, -1)

\* all, any, none (...components): key(components) sorts the array that the
\* closure captures
Combinator(kind, components) ==
  Memoized(kind, key(components),
           [kind |-> kind, components |-> Sort(components), of |-> 0],
           Command(kind, None, components, Undefined))

all ==
  \E components \in PredicateLists :
    Combinator("all", components) /\ UNCHANGED worldState

any ==
  \E components \in PredicateLists :
    Combinator("any", components) /\ UNCHANGED worldState

none ==
  \E components \in PredicateLists :
    Combinator("none", components) /\ UNCHANGED worldState

\* not(predicate): memoized by the identity of the predicate
not ==
  \E predicate \in 1..Len(functions) :
    /\ Memoized("not", predicate,
                [kind |-> "not", components |-> <<>>, of |-> predicate],
                Command("not", predicate, <<>>, Undefined))
    /\ UNCHANGED worldState

NextPredicates ==
  \/ all
  \/ any
  \/ none
  \/ not

SpecPredicates == InitDeferred /\ [][NextPredicates]_vars

(***************************************************************************)
(* Vocabulary of the properties.                                            *)
(***************************************************************************)
\* Entity e holds a value for component name n
Holds(e, n) == IF n = IdName THEN id[e] # 0 ELSE props[e][n] # Undefined
HoldsNext(e, n) == IF n = IdName THEN id'[e] # 0 ELSE props'[e][n] # Undefined

\* The membership rule: e holds a value for every component name of archetype a
Satisfies(e, a) == \A i \in 1..Len(a) : Holds(e, a[i])
SatisfiesNext(e, a) == \A i \in 1..Len(a) : HoldsNext(e, a[i])

\* Archetype a requires one of the names
Requires(a, names) == \E i \in 1..Len(a) : a[i] \in names

\* The sequence s without the entity e
Without(s, e) == SelectSeq(s, LAMBDA x : x # e)

NamesOf(call) == {call.names[i] : i \in 1..Len(call.names)}

NoListenerInvoked == \A a \in DOMAIN invoked' : invoked'[a] = 0

(***************************************************************************)
(* C1. Every registered index holds exactly the entities of the master list *)
(* that satisfy its archetype, each exactly once.                            *)
(***************************************************************************)
C1_ExactMembership ==
  \A a \in DOMAIN archetypes : \A e \in Entity :
    Count(archetypes[a], e) = IF Includes(entities, e) /\ Satisfies(e, a) THEN 1 ELSE 0

(***************************************************************************)
(* C2. immediately.removeComponent(e, ...names) removes e from every index  *)
(* that requires a removed name and from no other, removes no other entity   *)
(* from any index, and invokes the listeners of exactly the indices that     *)
(* lost e, once each.                                                        *)
(***************************************************************************)
C2_RemoveComponentFrame ==
  [][last'.op = "immediately.removeComponent" =>
       LET e == last'.entity
           removed == NamesOf(last')
       IN  \A a \in DOMAIN archetypes :
             /\ Requires(a, removed) => ~Includes(archetypes'[a], e)
             /\ ~Requires(a, removed) => archetypes'[a] = archetypes[a]
             /\ \A x \in Entity \ {e} : Count(archetypes'[a], x) = Count(archetypes[a], x)
             /\ invoked'[a] = IF Includes(archetypes[a], e) /\ ~Includes(archetypes'[a], e)
                              THEN 1 ELSE 0]_vars

(***************************************************************************)
(* C3. Removing components the entity does not hold, and removing an entity *)
(* that is neither in the master list nor in any index, change neither the   *)
(* master list nor any index, invoke no listener and throw nothing.          *)
(***************************************************************************)
C3_EdgeInputsAreNoOps ==
  [][(\/ /\ last'.op = "immediately.removeComponent"
         /\ \A n \in NamesOf(last') : ~Holds(last'.entity, n)
      \/ /\ last'.op = "immediately.removeEntity"
         /\ ~Includes(entities, last'.entity)
         /\ \A a \in DOMAIN archetypes : ~Includes(archetypes[a], last'.entity))
     => /\ entities' = entities
        /\ archetypes' = archetypes
        /\ NoListenerInvoked
        /\ thrown' = None]_vars

(***************************************************************************)
(* C4. immediately.removeEntity(e) of an entity of the master list removes  *)
(* e from every index that held it, invokes the listeners of exactly those   *)
(* indices once, clears e.id and takes e out of the master list; every       *)
(* other entity keeps its place in the master list and in the indices.       *)
(***************************************************************************)
C4_RemoveOwnedEntity ==
  [][last'.op = "immediately.removeEntity" /\ Includes(entities, last'.entity) =>
       LET e == last'.entity
       IN  /\ DOMAIN archetypes' = DOMAIN archetypes
           /\ \A a \in DOMAIN archetypes :
                /\ archetypes'[a] = Without(archetypes[a], e)
                /\ invoked'[a] = IF Includes(archetypes[a], e) THEN 1 ELSE 0
           /\ id' = [id EXCEPT ![e] = 0]
           /\ entities' = Without(entities, e)
           /\ Len(entities') = Len(entities) - 1
           /\ props' = props
           /\ thrown' = None]_vars

\* An entity of the master list was removed from an index that keeps another entity
C4_Witness ==
  /\ last.op = "immediately.removeEntity"
  /\ last.pos >= 0
  /\ id[last.entity] = 0
  /\ Len(entities) >= 1
  /\ \E a \in DOMAIN archetypes : invoked[a] = 1 /\ Len(archetypes[a]) >= 1

(***************************************************************************)
(* C5. immediately.addEntity(e) of an entity without identifier returns e,  *)
(* gives it an identifier, appends it to the master list, and leaves every   *)
(* registered index with e exactly once if e satisfies its archetype and     *)
(* without e otherwise.                                                      *)
(***************************************************************************)
C5_AddEntityIndexed ==
  [][last'.op = "immediately.addEntity" /\ id[last'.entity] = 0 =>
       LET e == last'.entity
       IN  /\ last'.ret = e
           /\ id'[e] # 0
           /\ entities' = Append(entities, e)
           /\ \A a \in DOMAIN archetypes' :
                Count(archetypes'[a], e) = IF SatisfiesNext(e, a) THEN 1 ELSE 0]_vars

(***************************************************************************)
(* C6. immediately.addComponent(e, n, v) sets e[n] = v and appends e to     *)
(* each index that requires n, that e now satisfies and that did not hold e; *)
(* every other index is unchanged, so no entity leaves any index.            *)
(***************************************************************************)
C6_AddComponentFrame ==
  [][last'.op = "immediately.addComponent" =>
       LET e == last'.entity
           n == last'.names[1]
       IN  /\ props' = [props EXCEPT ![e][n] = last'.data]
           /\ DOMAIN archetypes' = DOMAIN archetypes
           /\ \A a \in DOMAIN archetypes :
                archetypes'[a] =
                  IF Requires(a, {n}) /\ SatisfiesNext(e, a) /\ ~Includes(archetypes[a], e)
                  THEN Append(archetypes[a], e)
                  ELSE archetypes[a]]_vars

\* addComponent put an entity into one index and left an index not requiring the name alone
C6_Witness ==
  /\ last.op = "immediately.addComponent"
  /\ \E a, b \in DOMAIN archetypes :
       /\ invoked[a] = 1
       /\ Includes(archetypes[a], last.entity)
       /\ ~Requires(b, NamesOf(last))
       /\ invoked[b] = 0
       /\ Len(archetypes[b]) >= 1

(***************************************************************************)
(* C9. immediately.addEntity(e) of an entity that carries an identifier     *)
(* throws DuplicateIdentifier and changes nothing: not the master list, no   *)
(* index, not the identifier counter, not e, and no listener is invoked.     *)
(***************************************************************************)
C9_DuplicateIdentifier ==
  [][last'.op = "immediately.addEntity" /\ id[last'.entity] # 0 =>
       /\ thrown' = DuplicateIdentifier
       /\ last'.ret = Undefined
       /\ UNCHANGED <<entities, archetypes, nextId, id, props>>
       /\ NoListenerInvoked]_vars

\* addEntity threw on an entity that is in the master list and in an index
C9_Witness ==
  /\ last.op = "immediately.addEntity"
  /\ thrown = DuplicateIdentifier
  /\ Includes(entities, last.entity)
  /\ \E a \in DOMAIN archetypes : Includes(archetypes[a], last.entity)

(***************************************************************************)
(* C10. An entity carries an identifier if and only if it is in the master  *)
(* list.                                                                     *)
(***************************************************************************)
C10_IdentifierIffOwned ==
  \A e \in Entity : id[e] # 0 <=> Includes(entities, e)

(***************************************************************************)
(* C7. A deferred addEntity, removeEntity, addComponent or removeComponent  *)
(* only appends to the queue: the master list, the indices, the identifiers  *)
(* and the components are unchanged and no listener is invoked.  The flush   *)
(* of the one queued call makes its effect, and invokes the listeners of     *)
(* every index it changed exactly once.                                      *)
(***************************************************************************)
DeferredOps == {"addEntity", "removeEntity", "addComponent", "removeComponent"}

EffectOf(c) ==
  LET e == c.entity
  IN  CASE c.op = "addEntity" ->
             id[e] = 0 =>
               /\ entities' = Append(entities, e)
               /\ id'[e] # 0
               /\ \A a \in DOMAIN archetypes :
                    a # <<>> /\ SatisfiesNext(e, a) => Includes(archetypes'[a], e)
        [] c.op = "removeEntity" ->
             Includes(entities, e) =>
               /\ ~Includes(entities', e)
               /\ id'[e] = 0
               /\ \A a \in DOMAIN archetypes : ~Includes(archetypes'[a], e)
        [] c.op = "addComponent" ->
             /\ props'[e][c.names[1]] = c.data
             /\ \A a \in DOMAIN archetypes :
                  Requires(a, {c.names[1]}) /\ SatisfiesNext(e, a) => Includes(archetypes'[a], e)
        [] c.op = "removeComponent" ->
             /\ \A i \in 1..Len(c.names) : props'[e][c.names[i]] = Undefined
             /\ \A a \in DOMAIN archetypes :
                  Requires(a, NamesOf(c)) => ~Includes(archetypes'[a], e)

C7_DeferredUntilFlush ==
  [][/\ last'.op \in DeferredOps =>
          /\ UNCHANGED <<entities, archetypes, id, props, nextId>>
          /\ NoListenerInvoked
          /\ thrown' = None
          /\ queue' = Append(queue, [op |-> last'.op, entity |-> last'.entity,
                                     names |-> last'.names, data |-> last'.data])
     /\ last'.op = "flush" /\ Len(queue) = 1 =>
          /\ EffectOf(queue[1])
          /\ \A a \in DOMAIN archetypes :
               archetypes'[a] # archetypes[a] => invoked'[a] = 1]_vars

\* A deferred addEntity is pending: the entity satisfies a registered archetype
\* and is neither in its index nor in the master list, and has no identifier
C7_Witness ==
  /\ last.op = "addEntity"
  /\ queue # <<>>
  /\ queue[Len(queue)].entity = last.entity
  /\ id[last.entity] = 0
  /\ ~Includes(entities, last.entity)
  /\ \E a \in DOMAIN archetypes :
       Satisfies(last.entity, Without(a, IdName)) /\ ~Includes(archetypes[a], last.entity)

(***************************************************************************)
(* C8. flush() executes every queued command exactly once, in enqueue       *)
(* order, and empties the queue: the world after flush() is the world after  *)
(* the corresponding immediately.* calls made in that order, and a flush of  *)
(* an empty queue changes nothing.                                           *)
(***************************************************************************)
\* The immediate calls of the commands of q, made one after the other
RECURSIVE ImmediateCalls(_, _)
ImmediateCalls(w, q) ==
  IF q = <<>> THEN w ELSE ImmediateCalls(Execute(w, Head(q)), Tail(q))

C8_FlushIsImmediateCallsInOrder ==
  [][last'.op = "flush" =>
       LET w == ImmediateCalls(Begin(World), queue)
       IN  /\ queue' = <<>>
           /\ entities' = w.entities
           /\ archetypes' = w.archetypes
           /\ id' = w.id
           /\ props' = w.props
           /\ nextId' = w.nextId
           /\ invoked' = w.invoked]_vars

(***************************************************************************)
(* C11. clear() leaves the master list, the index map, the listener map and *)
(* the queue empty, so that get() of an archetype registered before gives    *)
(* nothing; a flush() that follows applies no command; and an archetype      *)
(* that is created again after clear() starts with an empty index and an     *)
(* empty listener registry.                                                  *)
(***************************************************************************)
RegistryOps == {"createArchetype", "getWith"}

\* The world after the step
WorldNext == World'

C11_ClearEmptiesTheStore ==
  [][/\ last'.op = "clear" =>
          /\ entities' = <<>>
          /\ archetypes' = <<>>
          /\ listeners' = <<>>
          /\ queue' = <<>>
          /\ \A a \in DOMAIN archetypes : get(WorldNext, a) = Undefined
     /\ last.op = "clear" /\ last'.op = "flush" =>
          /\ UNCHANGED <<entities, archetypes, listeners, id, props, nextId, queue>>
          /\ NoListenerInvoked
     /\ last.op = "clear" /\ last'.op \in RegistryOps =>
          /\ get(WorldNext, last'.ret) = <<>>
          /\ listeners'[last'.ret] = <<>>]_vars

\* After clear(), getWith created again the archetype of an entity that was
\* admitted before: its index is empty
C11_Witness ==
  /\ last.op = "getWith"
  /\ entities = <<>>
  /\ get(World, last.ret) = <<>>
  /\ \E e \in Entity : id[e] # 0 /\ Satisfies(e, last.ret)

(***************************************************************************)
(* C12. createArchetype does not depend on the order of the names: the      *)
(* identity it returns holds the given names, it is the identity of every    *)
(* permutation of them, and when a permutation is registered the call        *)
(* returns that registered identity and adds no index.                       *)
(***************************************************************************)
IsPermutation(s, t) == Len(s) = Len(t) /\ \A n \in Keys : Count(s, n) = Count(t, n)

C12_OrderIndependent ==
  [][last'.op \in RegistryOps =>
       /\ IsPermutation(last'.ret, last'.names)
       /\ \A a \in DOMAIN archetypes :
            IsPermutation(a, last'.names) =>
              last'.ret = a /\ DOMAIN archetypes' = DOMAIN archetypes
       /\ \A a, b \in DOMAIN archetypes' : IsPermutation(a, b) => a = b
       /\ DOMAIN listeners' = DOMAIN archetypes']_vars

\* createArchetype("b", "a") returned the identity ("a", "b"), whose index holds an entity
C12_Witness ==
  /\ last.op = "createArchetype"
  /\ last.names = <<"b", "a">>
  /\ last.ret = <<"a", "b">>
  /\ get(World, last.ret) # <<>>

(***************************************************************************)
(* C13. createArchetype removes repeated names: no archetype holds a name   *)
(* twice, and a list that repeats a name gets the identity (and the index)   *)
(* of a registered archetype with the same set of names.                     *)
(***************************************************************************)
NameSet(s) == {s[i] : i \in 1..Len(s)}

C13_Deduplicates ==
  [][last'.op \in RegistryOps =>
       /\ \A a \in DOMAIN archetypes' : \A n \in Keys : Count(a, n) <= 1
       /\ \A a \in DOMAIN archetypes :
            NameSet(a) = NameSet(last'.names) => last'.ret = a]_vars

ImmediateOps ==
  {"immediately.addEntity", "immediately.removeEntity",
   "immediately.addComponent", "immediately.removeComponent"}

C15_FireOncePerChange ==
  [][last'.op \in ImmediateOps =>
       \A a \in DOMAIN archetypes :
         invoked'[a] = IF archetypes'[a] # archetypes[a] THEN 1 ELSE 0]_vars

(***************************************************************************)
(* C18. The identifiers handed out by addEntity are strictly increasing in  *)
(* the order of admission, so none is handed out twice, whatever removals    *)
(* and clear() calls come in between; the identifier an entity carries is    *)
(* one that was handed out, and no two entities carry the same one.          *)
(***************************************************************************)
C18_IdentifiersIncrease ==
  /\ \A i, j \in 1..Len(assigned) : i < j => assigned[i] < assigned[j]
  /\ \A e \in Entity : id[e] # 0 => Includes(assigned, id[e])
  /\ \A e, f \in Entity : e # f /\ id[e] # 0 => id[e] # id[f]

\* A second identifier was handed out after the entity that carries the first
\* one left the master list
C18_Witness ==
  /\ last.op = "immediately.addEntity"
  /\ Len(assigned) = 2
  /\ \E e, f \in Entity :
       /\ entities = <<e>>
       /\ id[e] = assigned[2]
       /\ id[f] = assigned[1]

(***************************************************************************)
(* C16. Whatever combinator calls came before, the function returned by     *)
(* all(...names) is true of an entity iff the entity holds every listed      *)
(* name, the one returned by any(...names) iff it holds one of them, the one *)
(* returned by none(...names) iff it holds none of them, and the one         *)
(* returned by not(p) iff p is false of the entity.  (Checked for the lists  *)
(* that name no falsy component.)                                            *)
(***************************************************************************)
CombinatorOps == {"all", "any", "none"}

Answer(op, names, e) ==
  CASE op = "all"  -> \A n \in NameSet(names) : Holds(e, n)
    [] op = "any"  -> \E n \in NameSet(names) : Holds(e, n)
    [] op = "none" -> \A n \in NameSet(names) : ~Holds(e, n)

C16_PredicatesAnswer ==
  [][/\ last'.op \in CombinatorOps /\ Empty \notin NameSet(last'.names) =>
          \A e \in Entity :
            Apply(functions', last'.ret, e) = Answer(last'.op, last'.names, e)
     /\ last'.op = "not" =>
          \A e \in Entity :
            Apply(functions', last'.ret, e) = ~Apply(functions', last'.entity, e)]_vars

(***************************************************************************)
(* C17. all, any and none return the function they returned before for a    *)
(* list with the same names (order, repeats and falsy names aside), and a    *)
(* function of their own kind; not(p) returns the function it returned       *)
(* before for the same p, and a negation of p; no function kept by a store   *)
(* is ever replaced.                                                         *)
(***************************************************************************)
TruthyNames(s) == NameSet(s) \ {Empty}

C17_SameInstance ==
  [][/\ last'.op \in CombinatorOps =>
          /\ functions'[last'.ret].kind = last'.op
          /\ TruthyNames(functions'[last'.ret].components) = TruthyNames(last'.names)
          /\ \A f \in 1..Len(functions) :
               /\ functions[f].kind = last'.op
               /\ TruthyNames(functions[f].components) = TruthyNames(last'.names)
               => last'.ret = f
     /\ last'.op = "not" =>
          /\ functions'[last'.ret].kind = "not"
          /\ functions'[last'.ret].of = last'.entity
          /\ \A f \in 1..Len(functions) :
               functions[f].kind = "not" /\ functions[f].of = last'.entity => last'.ret = f
     /\ last'.op \in CombinatorOps \cup {"not"} =>
          \A f \in 1..Len(functions) : functions'[f] = functions[f]]_vars

\* all("a", "a") returned the function that all("a", "") had made, and not()
\* of it is kept as well
C17_Witness ==
  /\ last.op = "all"
  /\ last.names = <<"a", "a">>
  /\ functions[last.ret].components = <<"", "a">>
  /\ \E f \in 1..Len(functions) : functions[f].kind = "not" /\ functions[f].of = last.ret

(***************************************************************************)
(* C19. No queued command is executed more than once: a command that a      *)
(* flush() has executed is not executed again by a later flush().            *)
(***************************************************************************)
C19_NoCommandRunsTwice ==
  \A i \in 1..Len(runs) : runs[i] <= 1

(***************************************************************************)
(* C20. When a flush() that starts with every index exact invokes a         *)
(* registered listener of an archetype, the index of that archetype is exact *)
(* for what the listener is shown: it holds, once each, the entities of the  *)
(* master list that satisfy the archetype, and no other.                     *)
(***************************************************************************)
ExactIndex(s) ==
  \A e \in Entity :
    Count(s.index, e) =
      IF Includes(s.entities, e) /\ entityIsArchetype(s, e, s.archetype) THEN 1 ELSE 0

C20_ListenersSeeExactIndices ==
  [][last'.op = "flush" /\ C1_ExactMembership =>
       \A s \in QueueShown(Begin(World), queue) :
         listeners[s.archetype] # <<>> => ExactIndex(s)]_vars
====
